---- MODULE Spec2Model ----
(***************************************************************************)
(* The rule engine of the 2048 game in src/main.py (class Game): the grid, *)
(* move resolution, tile spawning, the undo history, power-ups, the        *)
(* achievements and the game-over test.  Each action is one call of a      *)
(* method of Game; a call that raises leaves the object in the state the   *)
(* statements before the raise produced.                                   *)
(***************************************************************************)
EXTENDS Integers, Sequences, FiniteSets, TLC

VARIABLES
    grid,              \* self.grid: board_size x board_size cells, 0 = empty
    score,             \* self.score
    game_over,         \* self.game_over
    move_history,      \* self.move_history: list of grid copies
    undo_count,        \* self.undo_count
    active_power_ups,  \* self.active_power_ups: list of {type, duration}
    achievements,      \* achievement id -> Achievement.unlocked
    notifications,     \* self.notifications: ids of the unlock notifications
    stats,             \* self.stats (the two counters the engine writes)
    game_mode,         \* self.game_mode
    time_remaining,    \* self.time_remaining
    power_ups,         \* self.power_ups: power-up id -> its dict (count, ...)
    last,              \* the last call: method, arguments, outcome, state before it
    used               \* calls made so far, by kind (bounds the exploration)

vars == <<grid, score, game_over, move_history, undo_count, active_power_ups,
          achievements, notifications, stats, game_mode, time_remaining,
          power_ups, last, used>>

\* ---------------------------------------------------------------- constants

board_size == 4

max_undos == 3

time_attack_duration == 180

\* ------------------------------------------------------------------- bounds

\* board-changing moves (each spawns a tile) explored per behaviour
MaxSpawns == 1

\* clear_tile calls that remove a tile explored per behaviour
MaxClears == 1

\* random.choice(empty_cells) is drawn among the first MaxChoice empty cells
MaxChoice == 1

\* the boards of InitBoard hold tiles up to 2^MaxExp
MaxExp == 2

\* seconds between two update() calls: 0 .. MaxElapsed
MaxElapsed == 7

\* ------------------------------------------------------------------ helpers

Idx == 0 .. (board_size - 1)

Directions == {"up", "down", "left", "right"}

AchievementIds == <<"first_2048", "speed_demon", "perfect_game">>

EmptyGrid == [i \in Idx |-> [j \in Idx |-> 0]]

NoneMerged == [i \in Idx |-> [j \in Idx |-> FALSE]]

Min(a, b) == IF a < b THEN a ELSE b

\* the (i, j) with grid[i][j] == 0, in the order of the list comprehension
RECURSIVE empty_cells_from(_, _)
empty_cells_from(g, k) ==
    IF k >= board_size * board_size THEN <<>>
    ELSE LET i == k \div board_size
             j == k % board_size
         IN  (IF g[i][j] = 0 THEN << <<i, j>> >> ELSE <<>>)
                \o empty_cells_from(g, k + 1)

empty_cells(g) == empty_cells_from(g, 0)

\* a spawn that draws among all the cells, occupied or not
add_new_tile_any_cell(g) ==
    { [g EXCEPT ![k \div board_size][k % board_size] = v] :
        k \in 0 .. (Min(board_size * board_size, MaxChoice) - 1), v \in {2, 4} }

\* a spawn that, on a full board, replaces the first tile
add_new_tile_forced(g) ==
    LET cells == empty_cells(g)
    IN  IF cells = <<>> THEN { [g EXCEPT ![0][0] = v] : v \in {2, 4} }
        ELSE { [g EXCEPT ![cells[n][1]][cells[n][2]] = v] :
                 n \in 1 .. Min(Len(cells), MaxChoice), v \in {2, 4} }

\* add_new_tile: the grids the call can leave (the grid itself when full)
add_new_tile(g) ==
    LET cells == empty_cells(g)
    IN  IF cells = <<>> THEN {g}
        ELSE { [g EXCEPT ![cells[n][1]][cells[n][2]] = v] :
                 n \in 1 .. Min(Len(cells), MaxChoice), v \in {2, 4} }

\* multipliers added up: 1 + 1 per active double_points effect
RECURSIVE get_score_multiplier_added(_)
get_score_multiplier_added(ups) ==
    IF ups = <<>> THEN 1
    ELSE (IF Head(ups).type = "double_points" THEN 1 ELSE 0)
            + get_score_multiplier_added(Tail(ups))

\* get_score_multiplier: 2 per active double_points effect
RECURSIVE get_score_multiplier(_)
get_score_multiplier(ups) ==
    IF ups = <<>> THEN 1
    ELSE (IF Head(ups).type = "double_points" THEN 2 ELSE 1)
            * get_score_multiplier(Tail(ups))

\* a merge that lets a tile created by a merge merge again in the same move
may_merge_chained(s, current, ni, nj, di, dj) ==
    s.grid[ni][nj] = current

\* the elif of _move_tile: the neighbour holds the same value and neither cell
\* has merged in this move
may_merge(s, current, ni, nj, di, dj) ==
    /\ s.grid[ni][nj] = current
    /\ ~s.merged[ni][nj]
    /\ ~s.merged[ni - di][nj - dj]

\* a merge written += 2 for *= 2
merged_value_plus(v) == v + 2

\* self.grid[ni][nj] *= 2
merged_value(v) == v * 2

\* the while loop of _move_tile; s = [grid, merged, score]
RECURSIVE move_tile_loop(_, _, _, _, _, _, _)
move_tile_loop(s, current, ni, nj, di, dj, ups) ==
    IF ~(ni \in Idx /\ nj \in Idx) THEN s
    ELSE IF s.grid[ni][nj] = 0
    THEN move_tile_loop(
            [s EXCEPT !.grid = [@ EXCEPT ![ni][nj] = current,
                                         ![ni - di][nj - dj] = 0]],
            current, ni + di, nj + dj, di, dj, ups)
    ELSE IF may_merge(s, current, ni, nj, di, dj)
    THEN LET doubled == merged_value(s.grid[ni][nj])
         IN  [grid   |-> [s.grid EXCEPT ![ni][nj] = doubled,
                                        ![ni - di][nj - dj] = 0],
              score  |-> s.score + doubled * get_score_multiplier(ups),
              merged |-> [s.merged EXCEPT ![ni][nj] = TRUE]]
    ELSE s

move_tile(s, i, j, di, dj, ups) ==
    IF s.grid[i][j] = 0 THEN s
    ELSE move_tile_loop(s, s.grid[i][j], i + di, j + dj, di, dj, ups)

\* the _move_tile calls of move_tiles(direction), in the order of its loops
move_order(direction) ==
    [k \in 1 .. board_size * (board_size - 1) |->
        LET outer == (k - 1) \div (board_size - 1)
            inner == (k - 1) % (board_size - 1)
        IN  CASE direction = "up"    -> <<inner + 1, outer, -1, 0>>
              [] direction = "down"  -> <<board_size - 2 - inner, outer, 1, 0>>
              [] direction = "left"  -> <<outer, inner + 1, 0, -1>>
              [] direction = "right" -> <<outer, board_size - 2 - inner, 0, 1>>]

RECURSIVE resolve_from(_, _, _, _)
resolve_from(s, order, k, ups) ==
    IF k > Len(order) THEN s
    ELSE resolve_from(
            move_tile(s, order[k][1], order[k][2], order[k][3], order[k][4], ups),
            order, k + 1, ups)

\* the tile-resolution part of move_tiles: [grid, merged, score] after the loops
resolve(g, sc, direction, ups) ==
    resolve_from([grid |-> g, merged |-> NoneMerged, score |-> sc],
                 move_order(direction), 1, ups)

\* max(tile for row in self.grid for tile in row)
max_tile(g) ==
    CHOOSE m \in { g[i][j] : i \in Idx, j \in Idx } :
        \A i \in Idx, j \in Idx : g[i][j] <= m

\* eval(achievement.condition, {max_tile, win_time, undo_count})
condition_met(id, g, remaining, undos) ==
    CASE id = "first_2048"   -> max_tile(g) >= 2048
      [] id = "speed_demon"  -> (time_attack_duration - remaining) < 180
      [] id = "perfect_game" -> undos = 0

\* check_achievements with unlock_achievement inlined; c = [achievements,
\* notifications, inserts, raised]; the fail_at-th INSERT of the call raises
RECURSIVE check_achievements_from(_, _, _, _, _, _)
check_achievements_from(c, k, g, remaining, undos, fail_at) ==
    IF k > Len(AchievementIds) \/ c.raised THEN c
    ELSE LET id == AchievementIds[k]
         IN  IF ~c.achievements[id] /\ condition_met(id, g, remaining, undos)
             THEN check_achievements_from(
                    [achievements  |-> [c.achievements EXCEPT ![id] = TRUE],
                     notifications |-> Append(c.notifications, id),
                     inserts       |-> c.inserts + 1,
                     raised        |-> (c.inserts + 1 = fail_at)],
                    k + 1, g, remaining, undos, fail_at)
             ELSE check_achievements_from(c, k + 1, g, remaining, undos, fail_at)

check_achievements(ach, notes, g, remaining, undos, fail_at) ==
    check_achievements_from(
        [achievements |-> ach, notifications |-> notes, inserts |-> 0,
         raised |-> FALSE],
        1, g, remaining, undos, fail_at)

\* update_power_ups: every duration decremented, the expired effects removed
RECURSIVE update_power_ups(_)
update_power_ups(ups) ==
    IF ups = <<>> THEN <<>>
    ELSE LET p == [Head(ups) EXCEPT !.duration = @ - 1]
         IN  (IF p.duration <= 0 THEN <<>> ELSE <<p>>)
                \o update_power_ups(Tail(ups))

\* a test that looks at the right neighbour only
check_can_merge_rows(g) ==
    \E i \in Idx, j \in Idx :
        g[i][j] # 0 /\ j < board_size - 1 /\ g[i][j + 1] = g[i][j]

\* _check_can_merge: some tile equals its right or its lower neighbour
check_can_merge(g) ==
    \E i \in Idx, j \in Idx :
        /\ g[i][j] # 0
        /\ \/ (j < board_size - 1 /\ g[i][j + 1] = g[i][j])
           \/ (i < board_size - 1 /\ g[i + 1][j] = g[i][j])

\* a terminal test that stops at the full board
board_terminal_full(g) ==
    ~(\E i \in Idx, j \in Idx : g[i][j] = 0)

\* the terminal test of update(): not empty_cells and not can_merge
board_terminal(g) ==
    /\ ~(\E i \in Idx, j \in Idx : g[i][j] = 0)
    /\ ~check_can_merge(g)

\* original_grid bound to the grid itself, not to a copy of it
board_changed_alias(original_grid, g) == FALSE

\* moved = original_grid != self.grid
board_changed(original_grid, g) == original_grid # g

\* a cap that drops the entry just pushed
push_history_drop_newest(history, g) ==
    IF Len(history) + 1 > max_undos + 1 THEN history ELSE Append(history, g)

\* move_tiles, first statements: the grid is appended to move_history and
\* the oldest entry popped when the list exceeds max_undos + 1
push_history(history, g) ==
    LET pushed == Append(history, g)
    IN  IF Len(pushed) > max_undos + 1 THEN Tail(pushed) ELSE pushed

\* an undo that ignores the budget
can_undo_unbudgeted(history, undos, over) ==
    Len(history) > 1 /\ ~over

\* the condition of undo_move
can_undo(history, undos, over) ==
    Len(history) > 1 /\ undos < max_undos /\ ~over

\* initialize_power_ups: the dict of each power-up (the entries the engine
\* reads); clear_tile has no 'count'
initialize_power_ups ==
    [undo          |-> [count |-> max_undos, initial_count |-> max_undos],
     clear_tile    |-> [initial_count |-> 1],
     double_points |-> [count |-> 1, initial_count |-> 1, duration |-> 5]]

\* the fields of the session a call can read or write
Fields ==
    [grid |-> grid, score |-> score, game_over |-> game_over,
     move_history |-> move_history, undo_count |-> undo_count,
     active_power_ups |-> active_power_ups, power_ups |-> power_ups,
     achievements |-> achievements]

\* what a call records about itself: the method, its argument(s), how
\* it ended (the value returned or the exception raised), the fields it
\* started from and, for move_tiles, the grid between tile resolution and
\* the spawn
Call(op, arg, ret, resolved) ==
    [op |-> op, arg |-> arg, ret |-> ret, pre |-> Fields, resolved |-> resolved]

\* ------------------------------------------------------------------ actions

\* move_tiles(direction); the fail_at-th INSERT of check_achievements raises
\* (fail_at = 0: none does)
MoveTiles(direction) ==
    LET hist   == push_history(move_history, grid)
        s      == resolve(grid, score, direction, active_power_ups)
        moved  == board_changed(grid, s.grid)
        all    == check_achievements(achievements, notifications, s.grid,
                                     time_remaining, undo_count, 0)
    IN  /\ move_history' = hist
        /\ score' = s.score
        /\ UNCHANGED <<game_over, undo_count, game_mode, time_remaining, power_ups>>
        /\ IF ~moved
           THEN /\ grid' = s.grid
                /\ last' = Call("move_tiles", direction, "False", s.grid)
                /\ UNCHANGED <<active_power_ups, achievements,
                               notifications, stats, used>>
           ELSE /\ used.spawns < MaxSpawns
                /\ used' = [used EXCEPT !.spawns = @ + 1]
                /\ stats' = [stats EXCEPT !.moves_made = @ + 1]
                /\ \E fail_at \in 0 .. all.inserts :
                    LET c == check_achievements(achievements, notifications,
                                 s.grid, time_remaining, undo_count, fail_at)
                    IN  /\ achievements' = c.achievements
                        /\ notifications' = c.notifications
                        /\ IF c.raised
                           THEN /\ grid' = s.grid
                                /\ last' = Call("move_tiles", direction,
                                                "sqlite3.Error", s.grid)
                                /\ UNCHANGED active_power_ups
                           ELSE /\ active_power_ups' =
                                       update_power_ups(active_power_ups)
                                /\ grid' \in add_new_tile(s.grid)
                                /\ last' = Call("move_tiles", direction,
                                                "True", s.grid)

\* an undo that takes back the points of the move it undoes
UndoMove_score_taken_back ==
    IF can_undo(move_history, undo_count, game_over)
    THEN LET popped == SubSeq(move_history, 1, Len(move_history) - 1)
         IN  /\ move_history' = popped
             /\ grid' = popped[Len(popped)]
             /\ undo_count' = undo_count + 1
             /\ score' = IF last.op = "move_tiles" THEN last.pre.score ELSE score
             /\ last' = Call("undo_move", "", "True", grid)
             /\ UNCHANGED <<game_over, active_power_ups, achievements,
                            notifications, stats, game_mode, time_remaining, used, power_ups>>
    ELSE /\ last' = Call("undo_move", "", "False", grid)
         /\ UNCHANGED <<grid, score, game_over, move_history, undo_count,
                        active_power_ups, achievements, notifications, stats,
                        game_mode, time_remaining, used, power_ups>>

\* undo_move()
UndoMove ==
    IF can_undo(move_history, undo_count, game_over)
    THEN LET popped == SubSeq(move_history, 1, Len(move_history) - 1)
         IN  /\ move_history' = popped
             /\ grid' = popped[Len(popped)]
             /\ undo_count' = undo_count + 1
             /\ last' = Call("undo_move", "", "True", grid)
             /\ UNCHANGED <<score, game_over, active_power_ups, achievements,
                            notifications, stats, game_mode, time_remaining, used, power_ups>>
    ELSE /\ last' = Call("undo_move", "", "False", grid)
         /\ UNCHANGED <<grid, score, game_over, move_history, undo_count,
                        active_power_ups, achievements, notifications, stats,
                        game_mode, time_remaining, used, power_ups>>

\* a clear_tile without the test for an empty cell
ClearTile_any_cell(row, col) ==
    IF row \in Idx /\ col \in Idx
    THEN /\ used.clears < MaxClears
         /\ used' = [used EXCEPT !.clears = @ + 1]
         /\ grid' = [grid EXCEPT ![row][col] = 0]
         /\ last' = Call("clear_tile", <<row, col>>, "True", grid)
         /\ UNCHANGED <<score, game_over, move_history, undo_count,
                        active_power_ups, achievements, notifications, stats,
                        game_mode, time_remaining, power_ups>>
    ELSE /\ last' = Call("clear_tile", <<row, col>>, "False", grid)
         /\ UNCHANGED <<grid, score, game_over, move_history, undo_count,
                        active_power_ups, achievements, notifications, stats,
                        game_mode, time_remaining, used, power_ups>>

\* clear_tile(row, col)
ClearTile(row, col) ==
    IF row \in Idx /\ col \in Idx /\ grid[row][col] # 0
    THEN /\ used.clears < MaxClears
         /\ used' = [used EXCEPT !.clears = @ + 1]
         /\ grid' = [grid EXCEPT ![row][col] = 0]
         /\ last' = Call("clear_tile", <<row, col>>, "True", grid)
         /\ UNCHANGED <<score, game_over, move_history, undo_count,
                        active_power_ups, achievements, notifications, stats,
                        game_mode, time_remaining, power_ups>>
    ELSE /\ last' = Call("clear_tile", <<row, col>>, "False", grid)
         /\ UNCHANGED <<grid, score, game_over, move_history, undo_count,
                        active_power_ups, achievements, notifications, stats,
                        game_mode, time_remaining, used, power_ups>>

\* activate_double_points(): self.available_power_ups is never assigned, so
\* building the effect raises AttributeError before the append
ActivateDoublePoints ==
    /\ last' = Call("activate_double_points", "", "AttributeError", grid)
    /\ UNCHANGED <<grid, score, game_over, move_history, undo_count,
                   active_power_ups, achievements, notifications, stats,
                   game_mode, time_remaining, used, power_ups>>

\* use_power_up(power_up_id): the first condition reads
\* self.available_power_ups and raises AttributeError
UsePowerUp(power_up_id) ==
    /\ last' = Call("use_power_up", power_up_id, "AttributeError", grid)
    /\ UNCHANGED <<grid, score, game_over, move_history, undo_count,
                   active_power_ups, achievements, notifications, stats,
                   game_mode, time_remaining, used, power_ups>>

\* an update() whose countdown test is < 0 for <= 0
Update_strict_timeout(elapsed, save_ok) ==
    LET timed     == game_mode = "time_attack" /\ ~game_over
        remaining == IF timed THEN time_remaining - elapsed ELSE time_remaining
        timed_out == timed /\ remaining < 0
        terminal  == ~game_over /\ ~timed_out /\ board_terminal(grid)
    IN  /\ time_remaining' = remaining
        /\ game_over' = (game_over \/ timed_out \/ terminal)
        /\ last' = Call("update", elapsed,
                        IF (timed_out \/ terminal) /\ ~save_ok
                        THEN "OSError" ELSE "None", grid)
        /\ UNCHANGED <<grid, score, move_history, undo_count, active_power_ups,
                       achievements, notifications, stats, game_mode, used, power_ups>>

\* update(): the countdown of TIME_ATTACK (elapsed = current_time -
\* self.last_time, in whole seconds), then the terminal test;
\* save_statistics() may raise (save_ok = FALSE)
Update(elapsed, save_ok) ==
    LET timed     == game_mode = "time_attack" /\ ~game_over
        remaining == IF timed THEN time_remaining - elapsed ELSE time_remaining
        timed_out == timed /\ remaining <= 0
        terminal  == ~game_over /\ ~timed_out /\ board_terminal(grid)
    IN  /\ time_remaining' = remaining
        /\ game_over' = (game_over \/ timed_out \/ terminal)
        /\ last' = Call("update", elapsed,
                        IF (timed_out \/ terminal) /\ ~save_ok
                        THEN "OSError" ELSE "None", grid)
        /\ UNCHANGED <<grid, score, move_history, undo_count, active_power_ups,
                       achievements, notifications, stats, game_mode, used, power_ups>>

\* reset_game(): the statements up to the loop over
\* self.available_power_ups, which raises AttributeError
ResetGame ==
    /\ grid' = EmptyGrid
    /\ score' = 0
    /\ game_over' = FALSE
    /\ move_history' = <<>>
    /\ undo_count' = 0
    /\ time_remaining' = time_attack_duration
    /\ notifications' = <<>>
    /\ active_power_ups' = <<>>
    /\ last' = Call("reset_game", "", "AttributeError", grid)
    /\ UNCHANGED <<achievements, stats, game_mode, used, power_ups>>

\* add_new_tile() called on its own
AddNewTile ==
    /\ grid' \in add_new_tile(grid)
    /\ last' = Call("add_new_tile", "", "None", grid)
    /\ UNCHANGED <<score, game_over, move_history, undo_count, active_power_ups,
                   achievements, notifications, stats, game_mode, time_remaining,
                   used, power_ups>>

\* ----------------------------------------------------------- specifications

AchievementIdSet == { AchievementIds[k] : k \in 1 .. Len(AchievementIds) }

\* load_achievements: unlocked = the id is in the achievements table
StoredUnlocks == { {}, {"speed_demon", "perfect_game"} }

\* the arguments of the calls: clear_tile on a single board takes every
\* pair over ClearCoords, within a session every pair over SessionCoords
ClearCoords == {-1, 0, board_size - 1, board_size}

SessionCoords == {0, board_size}

PowerUpIds == {"undo", "clear_tile", "double_points", "shield"}

\* Game.__init__ with initialize_features: the fields of a new session
InitFields ==
    /\ score = 0
    /\ game_over = FALSE
    /\ move_history = <<>>
    /\ undo_count = 0
    /\ active_power_ups = <<>>
    /\ power_ups = initialize_power_ups
    /\ notifications = <<>>
    /\ stats = [games_played |-> 0, moves_made |-> 0]
    /\ game_mode = "classic"
    /\ time_remaining = time_attack_duration
    /\ used = [spawns |-> 0, clears |-> 0]

Started(op) ==
    last = [op |-> op, arg |-> "", ret |-> "None", pre |-> Fields,
            resolved |-> grid]

\* the session Game() constructs: an empty grid and two add_new_tile calls
Init ==
    /\ InitFields
    /\ \E g1 \in add_new_tile(EmptyGrid) : grid \in add_new_tile(g1)
    /\ \E stored \in StoredUnlocks :
          achievements = [id \in AchievementIdSet |-> id \in stored]
    /\ Started("__init__")

Next ==
    \/ \E direction \in Directions : MoveTiles(direction)
    \/ UndoMove
    \/ \E row \in SessionCoords, col \in SessionCoords : ClearTile(row, col)
    \/ ActivateDoublePoints
    \/ \E id \in PowerUpIds : UsePowerUp(id)
    \/ \E save_ok \in BOOLEAN : Update(0, save_ok)
    \/ ResetGame

Spec == Init /\ [][Next]_vars

\* ------------------------------------------------- one call on a given board

RECURSIVE Pow2(_)
Pow2(e) == IF e = 0 THEN 1 ELSE 2 * Pow2(e - 1)

TileValues == {0} \cup { Pow2(e) : e \in 1 .. MaxExp }

Lines == [Idx -> TileValues]

\* a full board without equal neighbours
Checker == [i \in Idx |-> [j \in Idx |-> IF (i + j) % 2 = 0 THEN 2 ELSE 4]]

WithRow(g, k, line) == [g EXCEPT ![k] = line]

WithCol(g, k, line) == [i \in Idx |-> [g[i] EXCEPT ![k] = line[i]]]

\* the empty board and the full board with one row or column replaced by
\* every line over TileValues
Boards ==
    UNION { { WithRow(base, k, line), WithCol(base, k, line) } :
              base \in {EmptyGrid, Checker}, k \in Idx, line \in Lines }

DoublePoints(duration) == [type |-> "double_points", duration |-> duration]

\* the active effects a move is resolved under: none, one, two
PowerUpLists ==
    { <<>>, <<DoublePoints(5)>>, <<DoublePoints(1), DoublePoints(5)>> }

\* earlier grids, as move_tiles pushes them
Earlier ==
    [n \in 1 .. max_undos + 1 |-> WithRow(EmptyGrid, 0, [j \in Idx |->
                                     IF j < n THEN 2 ELSE 0])]

\* a session in mid-game: any board of Boards under any list of active
\* effects, or a full board with any history, undo count and game_over flag
InitBoard ==
    /\ stats = [games_played |-> 0, moves_made |-> 0]
    /\ power_ups = initialize_power_ups
    /\ game_mode = "classic"
    /\ time_remaining = time_attack_duration
    /\ used = [spawns |-> 0, clears |-> 0]
    /\ notifications = <<>>
    /\ achievements = [id \in AchievementIdSet |-> FALSE]
    /\ \/ /\ grid \in Boards
          /\ score = 0
          /\ active_power_ups \in PowerUpLists
          /\ move_history = <<>>
          /\ undo_count = 0
          /\ game_over = FALSE
       \/ /\ grid \in {Checker, [Checker EXCEPT ![0][0] = 4]}
          /\ score \in {0, 4}
          /\ active_power_ups = <<>>
          /\ \E n \in 0 .. max_undos + 1 : move_history = SubSeq(Earlier, 1, n)
          /\ undo_count \in 0 .. max_undos
          /\ game_over \in {FALSE, board_terminal(grid)}
    /\ Started("input")

NextBoard ==
    \/ \E direction \in Directions : last.op = "input" /\ MoveTiles(direction)
    \/ last.op = "input" /\ UndoMove
    \/ \E row \in ClearCoords, col \in ClearCoords :
          last.op = "input" /\ ClearTile(row, col)
    \/ last.op = "input" /\ ActivateDoublePoints
    \/ \E id \in PowerUpIds : last.op = "input" /\ UsePowerUp(id)
    \/ \E save_ok \in BOOLEAN : last.op = "input" /\ Update(0, save_ok)
    \/ last.op = "input" /\ ResetGame
    \/ last.op = "input" /\ AddNewTile

SpecBoard == InitBoard /\ [][NextBoard]_vars

\* ------------------------------------- the calls between two update() calls

\* a board-changing move has just been made
AfterMove == last.op = "move_tiles" /\ last.ret = "True"

\* the calls made on the object between two calls of update(): a move, one
\* more call (the loop of handle_input goes on to the next queued event
\* without a call of update(); no method but update() writes game_over = True),
\* then update()
NextFrame ==
    \/ \E direction \in Directions : last.op = "input" /\ MoveTiles(direction)
    \/ \E direction \in Directions : AfterMove /\ MoveTiles(direction)
    \/ AfterMove /\ UndoMove
    \/ \E row \in SessionCoords, col \in SessionCoords :
          AfterMove /\ ClearTile(row, col)
    \/ AfterMove /\ ActivateDoublePoints
    \/ \E id \in PowerUpIds : AfterMove /\ UsePowerUp(id)
    \/ \E save_ok \in BOOLEAN :
          last.op \notin {"input", "update"} /\ Update(0, save_ok)

SpecFrame == InitBoard /\ [][NextFrame]_vars

\* ------------------------------------------------ update() in every mode

\* class GameMode
GameModes == {"classic", "time_attack", "zen", "challenge"}

\* a terminal board, a full board with a merge left, a board with room
TimedBoards == {Checker, [Checker EXCEPT ![0][0] = 4], Earlier[2]}

\* a new session on one of TimedBoards with self.game_mode set to any mode
InitTimed ==
    /\ score = 0
    /\ game_over = FALSE
    /\ move_history = <<>>
    /\ undo_count = 0
    /\ active_power_ups = <<>>
    /\ power_ups = initialize_power_ups
    /\ notifications = <<>>
    /\ stats = [games_played |-> 0, moves_made |-> 0]
    /\ time_remaining = time_attack_duration
    /\ used = [spawns |-> 0, clears |-> 0]
    /\ achievements = [id \in AchievementIdSet |-> FALSE]
    /\ game_mode \in GameModes
    /\ grid \in TimedBoards
    /\ Started("input")

NextTimed ==
    \E elapsed \in 0 .. MaxElapsed, save_ok \in BOOLEAN : Update(elapsed, save_ok)

SpecTimed == InitTimed /\ [][NextTimed]_vars

\* --------------------------------------------------------------- properties

\* line k of g for a move in `direction`, read from the edge the tiles move to
Line(g, direction, k) ==
    [n \in 1 .. board_size |->
        CASE direction = "left"  -> g[k][n - 1]
          [] direction = "right" -> g[k][board_size - n]
          [] direction = "up"    -> g[n - 1][k]
          [] direction = "down"  -> g[board_size - n][k]]

Compact(line) == SelectSeq(line, LAMBDA v : v # 0)

\* scan from the move edge; a merged pair is consumed, so no tile merges twice
RECURSIVE MergeScan(_)
MergeScan(q) ==
    IF Len(q) < 2 THEN q
    ELSE IF q[1] = q[2]
         THEN <<2 * q[1]>> \o MergeScan(SubSeq(q, 3, Len(q)))
         ELSE <<q[1]>> \o MergeScan(Tail(q))

\* the sum of the tiles the scan creates
RECURSIVE MergeSum(_)
MergeSum(q) ==
    IF Len(q) < 2 THEN 0
    ELSE IF q[1] = q[2]
         THEN 2 * q[1] + MergeSum(SubSeq(q, 3, Len(q)))
         ELSE MergeSum(Tail(q))

Pad(q) == q \o [n \in 1 .. (board_size - Len(q)) |-> 0]

ReferenceLine(line) == Pad(MergeScan(Compact(line)))

Returned == last.op = "move_tiles" /\ last.ret \in {"True", "False"}

\* C1: after the tile resolution of move_tiles, in every direction, each line
\* equals its nonzero values compacted toward the move edge, merged pairwise
\* from that edge with no tile merging twice, and padded with zeros
C1_ResolutionIsReference ==
    last.op = "move_tiles" =>
        \A k \in Idx :
            Line(last.resolved, last.arg, k)
                = ReferenceLine(Line(last.pre.grid, last.arg, k))

\* a row [2,2,2,2] moved left has become [4,4,0,0]
C1_Witness ==
    /\ last.op = "move_tiles"
    /\ last.arg = "left"
    /\ \E k \in Idx :
          /\ last.pre.grid[k] = [j \in Idx |-> 2]
          /\ last.resolved[k] = [j \in Idx |-> IF j < 2 THEN 4 ELSE 0]

\* C2: a board-changing move followed at once by a successful undo leaves the
\* board and the score as they were immediately before that move
C2_UndoRestoresPreMoveState ==
    [][(/\ last.op = "move_tiles"
        /\ last.ret = "True"
        /\ last'.op = "undo_move"
        /\ last'.ret = "True")
       => (grid' = last.pre.grid /\ score' = last.pre.score)]_vars

\* the sum, over the lines of g, of the tiles a move in `direction` creates
RECURSIVE MergeSumFrom(_, _, _)
MergeSumFrom(g, direction, k) ==
    IF k >= board_size THEN 0
    ELSE MergeSum(Compact(Line(g, direction, k)))
            + MergeSumFrom(g, direction, k + 1)

\* 2 to the number of active double_points effects
MultiplierProduct(ups) ==
    Pow2(Cardinality({ n \in DOMAIN ups : ups[n].type = "double_points" }))

\* C3: the score a move adds is the sum of the tiles its merges create (2v
\* for each pair of tiles v), times 2 for each double_points effect active
\* during the move
C3_ScoreDelta ==
    last.op = "move_tiles" =>
        score - last.pre.score
            = MergeSumFrom(last.pre.grid, last.arg, 0)
                * MultiplierProduct(last.pre.active_power_ups)

\* a move with merges under two active effects
C3_Witness ==
    /\ last.op = "move_tiles"
    /\ Len(last.pre.active_power_ups) = 2
    /\ MergeSumFrom(last.pre.grid, last.arg, 0) > 0
    /\ score = last.pre.score + 4 * MergeSumFrom(last.pre.grid, last.arg, 0)

Cells == Idx \X Idx

\* `after` is `before` with one empty cell turned into a 2 or a 4
OneTileAdded(before, after) ==
    \E c \in Cells :
        /\ before[c[1]][c[2]] = 0
        /\ after[c[1]][c[2]] \in {2, 4}
        /\ \A d \in Cells : d # c => after[d[1]][d[2]] = before[d[1]][d[2]]

\* C4: a move_tiles call that changes the board and returns does return
\* True and spawns exactly one tile: one cell that was empty after the
\* resolution holds 2 or 4 and every other cell keeps its resolved value
C4_OneSpawnPerChangedMove ==
    (/\ last.op = "move_tiles"
     /\ last.resolved # last.pre.grid
     /\ last.ret # "sqlite3.Error")
    => (last.ret = "True" /\ OneTileAdded(last.resolved, grid))

\* a move that merged a full line and spawned into the cell it freed
C4_Witness ==
    /\ Returned
    /\ last.ret = "True"
    /\ Len(empty_cells(last.pre.grid)) = 0
    /\ Len(empty_cells(last.resolved)) = 1
    /\ Len(empty_cells(grid)) = 0

NoLineChanges(g, direction) ==
    \A k \in Idx : ReferenceLine(Line(g, direction, k)) = Line(g, direction, k)

\* C5: a move in a direction in which no line changes returns False, adds
\* nothing to the score, spawns nothing and leaves the grid as it was; and
\* move_tiles returns False exactly when the resolved grid equals the grid
\* before the move
C5_NoOpMove ==
    last.op = "move_tiles" =>
        /\ NoLineChanges(last.pre.grid, last.arg) =>
              /\ last.ret = "False"
              /\ grid = last.pre.grid
              /\ score = last.pre.score
        /\ last.ret = "False" <=> last.resolved = last.pre.grid
        /\ last.ret = "False" => grid = last.pre.grid

\* a no-op move on a board that holds tiles and has room for a spawn
C5_Witness ==
    /\ last.op = "move_tiles"
    /\ last.ret = "False"
    /\ grid = last.pre.grid
    /\ Len(empty_cells(grid)) \in 1 .. (board_size * board_size - 1)

Adjacent(c, d) ==
    \/ (c[1] = d[1] /\ (c[2] - d[2] = 1 \/ d[2] - c[2] = 1))
    \/ (c[2] = d[2] /\ (c[1] - d[1] = 1 \/ d[1] - c[1] = 1))

\* no empty cell and no two edge-adjacent cells with the same nonzero value
NoMoveLeft(g) ==
    /\ \A c \in Cells : g[c[1]][c[2]] # 0
    /\ \A c, d \in Cells :
          (Adjacent(c, d) /\ g[c[1]][c[2]] # 0) => g[c[1]][c[2]] # g[d[1]][d[2]]

\* C6: the terminal test of update() is true of a grid exactly when the
\* grid has no empty cell and no two row- or column-adjacent equal tiles,
\* and update() on a session that is not over ends it exactly then
C6_GameOverExact ==
    /\ board_terminal(grid) <=> NoMoveLeft(grid)
    /\ (last.op = "update" /\ ~last.pre.game_over /\ game_mode = "classic")
          => (game_over <=> NoMoveLeft(grid))

\* update() has ended the session on the full board without equal neighbours
C6_Witness ==
    /\ last.op = "update"
    /\ ~last.pre.game_over
    /\ game_over
    /\ grid = Checker

\* C7: undo_move succeeds only with more than one history entry, a session
\* that is not over and fewer than max_undos undos used; otherwise it returns
\* False and changes no field
C7_UndoGuard ==
    last.op = "undo_move" =>
        LET ok == /\ Len(last.pre.move_history) > 1
                  /\ ~last.pre.game_over
                  /\ last.pre.undo_count < max_undos
        IN  /\ last.ret = "True" <=> ok
            /\ ok => undo_count = last.pre.undo_count + 1
            /\ ~ok => last.ret = "False" /\ Fields = last.pre

\* an undo refused for the budget alone: the history is deep enough and the
\* session is not over
C7_Witness ==
    /\ last.op = "undo_move"
    /\ last.ret = "False"
    /\ Len(move_history) > 1
    /\ ~game_over
    /\ undo_count = max_undos

\* the last max_undos + 1 entries of q
KeepLast(q) ==
    IF Len(q) <= max_undos + 1 THEN q
    ELSE SubSeq(q, Len(q) - max_undos, Len(q))

\* C8: move_history never holds more than max_undos + 1 entries; every
\* move_tiles call, no-op or not, pushes the grid it started from and the
\* entry dropped at the cap is the oldest
C8_HistoryCap ==
    /\ Len(move_history) <= max_undos + 1
    /\ last.op = "move_tiles" =>
          move_history = KeepLast(Append(last.pre.move_history, last.pre.grid))

\* a move on a full history whose oldest entry differs from the next one
C8_Witness ==
    /\ last.op = "move_tiles"
    /\ Len(last.pre.move_history) = max_undos + 1
    /\ last.pre.move_history[1] # last.pre.move_history[2]
    /\ Len(move_history) = max_undos + 1
    /\ move_history[1] = last.pre.move_history[2]

RECURSIVE IsTile(_)
IsTile(v) == v = 2 \/ (v > 2 /\ v % 2 = 0 /\ IsTile(v \div 2))

\* C9: every cell of the grid holds 0 or a power of two that is at least 2
C9_CellValues ==
    \A c \in Cells : grid[c[1]][c[2]] = 0 \/ IsTile(grid[c[1]][c[2]])

\* a tile made by merging two 4s, on a board a later clear_tile has changed
C9_Witness ==
    /\ last.op = "clear_tile"
    /\ last.ret = "True"
    /\ \E c \in Cells : grid[c[1]][c[2]] = 8

\* C10: add_new_tile on a board with an empty cell turns one empty cell into
\* a 2 or a 4 and touches no other cell; on a full board it changes nothing
C10_SpawnLegal ==
    last.op = "add_new_tile" =>
        IF \E c \in Cells : last.pre.grid[c[1]][c[2]] = 0
        THEN OneTileAdded(last.pre.grid, grid)
        ELSE grid = last.pre.grid

\* a spawn on a board that had tiles and a single empty cell
C10_Witness ==
    /\ last.op = "add_new_tile"
    /\ Len(empty_cells(last.pre.grid)) = 1
    /\ Len(empty_cells(grid)) = 0

\* C11: between two resets the score never decreases: every call other than
\* reset_game (a move, a no-op move, an undo, a power-up, a tick) leaves the
\* score at least what it was
C11_ScoreMonotone ==
    [][last'.op # "reset_game" => score' >= score]_vars

\* an undo that succeeded right after a scoring move and kept its points
C11_Witness ==
    /\ last.op = "undo_move"
    /\ last.ret = "True"
    /\ last.pre.score > 0
    /\ score = last.pre.score
    /\ grid # last.pre.grid

\* how many times id occurs in the list q
Occurrences(q, id) == Cardinality({ n \in DOMAIN q : q[n] = id })

\* C12: no call re-locks an unlocked achievement; a board-changing move
\* unlocks every locked achievement whose predicate is true of the resolved
\* board and appends exactly one notification for it; it appends none for an
\* achievement that was already unlocked or whose predicate is false
C12_UnlockOnce ==
    [][/\ \A id \in AchievementIdSet : achievements[id] => achievements'[id]
       /\ (last'.op = "move_tiles" /\ last'.resolved # last'.pre.grid) =>
             \A id \in AchievementIdSet :
                LET due == /\ ~achievements[id]
                           /\ condition_met(id, last'.resolved,
                                            time_remaining, undo_count)
                    new == Occurrences(notifications', id)
                              - Occurrences(notifications, id)
                IN  /\ due => (achievements'[id] /\ new = 1)
                    /\ ~due => (achievements'[id] = achievements[id] /\ new = 0)
      ]_vars

\* the remaining uses of power-up id in the catalogue ps
RemainingUses(ps, id) ==
    IF id \in DOMAIN ps /\ "count" \in DOMAIN ps[id] THEN ps[id].count ELSE 0

\* C13: use_power_up never raises; it returns False for an unknown id or a
\* power-up with no use left; when it returns True the remaining uses of the
\* power-up have gone down by exactly one, when it returns False no count
\* has changed; no count is ever negative
C13_UsePowerUp ==
    /\ \A id \in DOMAIN power_ups : RemainingUses(power_ups, id) >= 0
    /\ last.op = "use_power_up" =>
          LET before == RemainingUses(last.pre.power_ups, last.arg)
              after  == RemainingUses(power_ups, last.arg)
          IN  /\ last.ret \in {"True", "False"}
              /\ (last.arg \notin DOMAIN last.pre.power_ups \/ before = 0)
                    => last.ret = "False"
              /\ last.ret = "True" => after = before - 1
              /\ last.ret = "False" => power_ups = last.pre.power_ups

\* C14: clear_tile never raises; with a coordinate out of range or an empty
\* cell addressed it returns False and changes nothing; otherwise it returns
\* True, the addressed cell is 0 and every other cell, the score and the
\* undo history are as before
C14_ClearTile ==
    last.op = "clear_tile" =>
        LET row   == last.arg[1]
            col   == last.arg[2]
            valid == /\ row \in Idx
                     /\ col \in Idx
                     /\ last.pre.grid[row][col] # 0
        IN  /\ last.ret \in {"True", "False"}
            /\ ~valid => (last.ret = "False" /\ Fields = last.pre)
            /\ valid =>
                  /\ last.ret = "True"
                  /\ grid = [last.pre.grid EXCEPT ![row][col] = 0]
                  /\ score = last.pre.score
                  /\ move_history = last.pre.move_history

\* a tile cleared in a session that has scored and has an undo history
C14_Witness ==
    /\ last.op = "clear_tile"
    /\ last.ret = "True"
    /\ score > 0
    /\ Len(move_history) > 0
    /\ Len(empty_cells(grid)) = Len(empty_cells(last.pre.grid)) + 1

\* a clear refused for a column out of range on a row that holds tiles
C14_WitnessRefused ==
    /\ last.op = "clear_tile"
    /\ last.ret = "False"
    /\ last.arg[1] \in Idx
    /\ last.arg[2] = board_size
    /\ grid[last.arg[1]][board_size - 1] # 0

Decayed(ups) ==
    SelectSeq([n \in DOMAIN ups |-> [ups[n] EXCEPT !.duration = @ - 1]],
              LAMBDA p : p.duration > 0)

\* C16: activate_double_points appends an effect with the configured
\* duration and returns True; a board-changing move takes one off the
\* duration of every active effect and drops those that reach zero; a no-op
\* move, an undo and a tick leave the active effects as they are
C16_DoublePointsDuration ==
    /\ last.op = "activate_double_points" =>
          /\ last.ret = "True"
          /\ active_power_ups =
                Append(last.pre.active_power_ups,
                       DoublePoints(initialize_power_ups.double_points.duration))
    /\ (last.op = "move_tiles" /\ last.resolved # last.pre.grid) =>
          active_power_ups = Decayed(last.pre.active_power_ups)
    /\ (last.op = "move_tiles" /\ last.resolved = last.pre.grid) =>
          active_power_ups = last.pre.active_power_ups
    /\ last.op \in {"undo_move", "update"} =>
          active_power_ups = last.pre.active_power_ups

\* the cells of g that hold a tile
Tiles(g) == { c \in Cells : g[c[1]][c[2]] # 0 }

\* C17: after __init__ and after reset_game the board holds exactly two
\* tiles, each 2 or 4, the score is 0, the undo history is empty, no undo is
\* used, no effect is active, the session is not over and every power-up
\* that keeps a count has its initial count; reset_game leaves the unlocked
\* flag of every achievement as it was
C17_FreshSession ==
    last.op \in {"__init__", "reset_game"} =>
        /\ Cardinality(Tiles(grid)) = 2
        /\ \A c \in Tiles(grid) : grid[c[1]][c[2]] \in {2, 4}
        /\ score = 0
        /\ move_history = <<>>
        /\ undo_count = 0
        /\ active_power_ups = <<>>
        /\ ~game_over
        /\ \A id \in DOMAIN power_ups :
              "count" \in DOMAIN power_ups[id]
                 => power_ups[id].count = power_ups[id].initial_count
        /\ last.op = "reset_game" => achievements = last.pre.achievements

\* C18: no call ends with the exception of a failed write (the INSERT of an
\* unlock, the save of the statistics); every board-changing move, its
\* unlock writes failed or not, has unlocked the achievements that were due,
\* aged the active effects and spawned its tile
C18_FailedWriteHarmless ==
    /\ last.ret \notin {"sqlite3.Error", "OSError"}
    /\ (last.op = "move_tiles" /\ last.resolved # last.pre.grid) =>
          /\ \A id \in AchievementIdSet :
                condition_met(id, last.resolved, time_remaining,
                              last.pre.undo_count) => achievements[id]
          /\ active_power_ups = Decayed(last.pre.active_power_ups)
          /\ OneTileAdded(last.resolved, grid)

\* C19: in TIME_ATTACK an update() of a session that is not over takes the
\* elapsed time off the countdown and ends the session when the countdown
\* is zero or below, whatever the board; in every other mode update()
\* leaves the countdown alone and ends the session only on a board without
\* a move left
C19_TimedMode ==
    [][last'.op = "update" =>
         IF game_mode = "time_attack"
         THEN ~game_over =>
                /\ time_remaining' = time_remaining - last'.arg
                /\ time_remaining' <= 0 => game_over'
                /\ (time_remaining' > 0 /\ ~NoMoveLeft(grid)) => ~game_over'
         ELSE /\ time_remaining' = time_remaining
              /\ game_over' <=> (game_over \/ NoMoveLeft(grid))
      ]_vars

\* the countdown has ended a TIME_ATTACK session on a board with room
C19_Witness ==
    /\ last.op = "update"
    /\ game_mode = "time_attack"
    /\ ~last.pre.game_over
    /\ game_over
    /\ time_remaining = 0
    /\ Len(empty_cells(grid)) > 0

\* move_tiles would return False in every direction
NoDirectionChanges(g) ==
    \A direction \in Directions :
        ~board_changed(g, resolve(g, 0, direction, <<>>).grid)

\* C20 as stated: on every board the terminal test of update() is true
\* exactly when no direction changes the board, and an update() of a
\* session that is not over ends it exactly then
C20_TerminalIffNoMoveAnyBoard ==
    /\ board_terminal(grid) <=> NoDirectionChanges(grid)
    /\ (last.op = "update" /\ ~last.pre.game_over /\ game_mode = "classic")
          => (game_over <=> NoDirectionChanges(grid))

\* C20: on every board that holds at least one tile the terminal test of
\* update() is true exactly when no direction changes the board, and an
\* update() of a session that is not over ends it exactly then; on the board
\* without a tile no direction changes anything and the test is false
C20_TerminalIffNoMove ==
    /\ Tiles(grid) # {} =>
          (board_terminal(grid) <=> NoDirectionChanges(grid))
    /\ (/\ last.op = "update"
        /\ ~last.pre.game_over
        /\ game_mode = "classic"
        /\ Tiles(grid) # {})
          => (game_over <=> NoDirectionChanges(grid))
    /\ Tiles(grid) = {} => (NoDirectionChanges(grid) /\ ~board_terminal(grid))

\* update() has ended the session on a full board no direction changes
C20_Witness ==
    /\ last.op = "update"
    /\ ~last.pre.game_over
    /\ game_over
    /\ Tiles(grid) = Cells
    /\ NoDirectionChanges(grid)
====
